---- MODULE Spec2Model ----
(***************************************************************************)
(* ADGM Corporate Agent (app_simple.py): the document classifier, the      *)
(* red-flag validator and the compliance checker, modelled on real text.   *)
(* A text is a string; substring search, lower-casing and the regular      *)
(* expressions of the red-flag table are computed character by character.  *)
(***************************************************************************)
EXTENDS Integers, Sequences, FiniteSets, TLC

VARIABLES
    doc_info,           \* the DocumentRecord returned by parse_document
    validation,         \* the ValidationResult returned by validate_document
    documents,          \* generate_compliance_report's first argument
    validations,        \* generate_compliance_report's second argument
    compliance_report,  \* the report returned by generate_compliance_report
    added,              \* number of documents appended to the batch so far
    files,              \* process_documents' argument: the uploaded files
    idx,                \* position of process_documents' loop in files
    pc,                 \* where process_documents stands
    result,             \* what process_documents returned
    table_compiles      \* whether every pattern of self.red_flag_patterns is a
                        \* valid regular expression (those of the table as
                        \* written are)

vars == <<doc_info, validation, documents, validations, compliance_report, added,
          files, idx, pc, result, table_compiles>>

\* the variables of a run of process_documents that the harnesses of the
\* parser, the validator and the checker leave alone
run_vars == <<files, idx, pc, result, table_compiles>>

\* ------------------------------------------------------------------ bounds
\* paragraphs per document
MaxParas == 2
\* validations per batch
MaxVals == 2
\* documents appended to a batch after it was drawn
MaxAdded == 1
\* files uploaded in one run of process_documents
MaxFiles == 3
\* files uploaded in one run in which no file is uploaded twice
MaxBatch == 4

\* ------------------------------------------------------------- str methods
UpperAlpha == "ABCDEFGHIJKLMNOPQRSTUVWXYZ"
LowerAlpha == "abcdefghijklmnopqrstuvwxyz"

CharAt(s, i) == SubSeq(s, i, i)

\* the lower-case letter of each upper-case letter
LowerOf ==
    [c \in {CharAt(UpperAlpha, i) : i \in 1..26} |->
        CharAt(LowerAlpha, CHOOSE i \in 1..26 : CharAt(UpperAlpha, i) = c)]

LowerChar(c) == IF c \in DOMAIN LowerOf THEN LowerOf[c] ELSE c

\* str.lower()
RECURSIVE lower(_)
lower(s) ==
    IF Len(s) = 0 THEN "" ELSE LowerChar(CharAt(s, 1)) \o lower(SubSeq(s, 2, Len(s)))

IsSpace(c) == c \in {" ", "\n", "\t"}

\* para.text.strip(): truthy iff some character is not whitespace
strip_nonempty(s) == \E i \in 1..Len(s) : ~IsSpace(CharAt(s, i))

\* len(text.split()): the number of maximal runs of non-whitespace
word_count(s) ==
    Cardinality({i \in 1..Len(s) :
        /\ ~IsSpace(CharAt(s, i))
        /\ (i = 1 \/ IsSpace(CharAt(s, i - 1)))})

\* the literal k occurs in t at position i
At(k, t, i) == i >= 1 /\ i + Len(k) - 1 <= Len(t) /\ SubSeq(t, i, i + Len(k) - 1) = k

\* keyword in text
In(k, t) == \E i \in 1..(Len(t) - Len(k) + 1) : At(k, t, i)

\* '\n'.join(parts)
RECURSIVE join(_)
join(parts) ==
    IF Len(parts) = 0 THEN ""
    ELSE IF Len(parts) = 1 THEN parts[1]
    ELSE parts[1] \o "\n" \o join(Tail(parts))

\* ------------------------------------------------- SimpleDocumentParser
\* the patterns dict of _identify_document_type, in declared (= iteration) order
\* the table with an entry for the register of members and directors
patterns_with_register == <<
    [doc_type |-> "articles_of_association",
     keywords |-> <<"articles of association", "company regulations",
                    "share capital", "director powers">>],
    [doc_type |-> "board_resolution",
     keywords |-> <<"board resolution", "resolved that",
                    "directors resolve", "board of directors">>],
    [doc_type |-> "ubo_declaration",
     keywords |-> <<"ultimate beneficial owner", "ubo declaration",
                    "beneficial ownership", "25%">>],
    [doc_type |-> "employment_contract",
     keywords |-> <<"employment contract", "terms of employment",
                    "employee", "employer", "salary">>],
    [doc_type |-> "incorporation_form",
     keywords |-> <<"incorporation", "application for registration",
                    "company registration">>],
    [doc_type |-> "register_members_directors",
     keywords |-> <<"register of members", "register of directors">>] >>

patterns == <<
    [doc_type |-> "articles_of_association",
     keywords |-> <<"articles of association", "company regulations",
                    "share capital", "director powers">>],
    [doc_type |-> "board_resolution",
     keywords |-> <<"board resolution", "resolved that",
                    "directors resolve", "board of directors">>],
    [doc_type |-> "ubo_declaration",
     keywords |-> <<"ultimate beneficial owner", "ubo declaration",
                    "beneficial ownership", "25%">>],
    [doc_type |-> "employment_contract",
     keywords |-> <<"employment contract", "terms of employment",
                    "employee", "employer", "salary">>],
    [doc_type |-> "incorporation_form",
     keywords |-> <<"incorporation", "application for registration",
                    "company registration">>] >>

\* sum(1 for keyword in keywords if keyword in text_lower)
Score(keywords, text_lower) ==
    Cardinality({i \in 1..Len(keywords) : In(keywords[i], text_lower)})

\* the scores dict: one <<doc_type, score>> entry per type with score > 0,
\* in insertion order
RECURSIVE ScoresFrom(_, _)
ScoresFrom(i, text_lower) ==
    IF i > Len(patterns) THEN <<>>
    ELSE LET score == Score(patterns[i].keywords, text_lower)
         IN  (IF score > 0 THEN << <<patterns[i].doc_type, score>> >> ELSE <<>>)
             \o ScoresFrom(i + 1, text_lower)

scores_of(text_lower) == ScoresFrom(1, text_lower)

\* max() keeping the last maximal entry instead of the first
RECURSIVE MaxKeyLast(_, _)
MaxKeyLast(best, rest) ==
    IF rest = <<>> THEN best[1]
    ELSE IF Head(rest)[2] >= best[2] THEN MaxKeyLast(Head(rest), Tail(rest))
    ELSE MaxKeyLast(best, Tail(rest))

\* max(iterable, key=f): the running best is replaced only by a strictly
\* greater entry, so the first maximal entry in iteration order is returned
RECURSIVE MaxKey(_, _)
MaxKey(best, rest) ==
    IF rest = <<>> THEN best[1]
    ELSE IF Head(rest)[2] > best[2] THEN MaxKey(Head(rest), Tail(rest))
    ELSE MaxKey(best, Tail(rest))

\* the classifier without text_content.lower()
identify_case_sensitive(text_content) ==
    LET scores == scores_of(text_content)
    IN  IF scores # <<>> THEN MaxKey(Head(scores), Tail(scores)) ELSE "unknown"

\* the classifier returning the first type that scored, not the best one
identify_first_scored(text_content) ==
    LET scores == scores_of(lower(text_content))
    IN  IF scores # <<>> THEN Head(scores)[1] ELSE "unknown"

_identify_document_type(text_content) ==
    LET text_lower == lower(text_content)
        scores == scores_of(text_lower)
    IN  IF scores # <<>> THEN MaxKey(Head(scores), Tail(scores)) ELSE "unknown"

\* parse_document on a file whose paragraphs python-docx could read
parse_document(file) ==
    LET full_text == SelectSeq(file.paragraphs, strip_nonempty)
        text_content == join(full_text)
    IN  [file_name |-> file.name,
         text_content |-> text_content,
         word_count |-> word_count(text_content),
         paragraph_count |-> Len(full_text),
         table_count |-> file.tables,
         document_type |-> _identify_document_type(text_content)]

\* ------------------------------------------------------- SimpleValidator
\* The regular expressions of the table, by shape.  "." matches any character
\* but "\n" (no re.DOTALL); (?i) changes nothing on lower-cased text.
\*   Lit(a)             a
\*   NotFollowed(a, n)  a(?!.*n1)(?!.*n2)...
\*   DotStar(a, b)      a.*b
\*   PlusDotStar(c, b)  c+.*b    (c one character)
Lit(a) == [shape |-> "literal", a |-> a, b |-> "", neg |-> <<>>]
NotFollowed(a, neg) == [shape |-> "not_followed", a |-> a, b |-> "", neg |-> neg]
DotStar(a, b) == [shape |-> "dot_star", a |-> a, b |-> b, neg |-> <<>>]
PlusDotStar(c, b) == [shape |-> "plus_dot_star", a |-> c, b |-> b, neg |-> <<>>]

\* self.red_flag_patterns, in declared (= iteration) order
red_flag_patterns == <<
    [flag_type |-> "jurisdiction_issues",
     patterns |-> << Lit("uae federal court"),
                     Lit("dubai court"),
                     NotFollowed("abu dhabi court", <<"global market">>),
                     Lit("federal law"),
                     Lit("emirates law") >>,
     severity |-> "high",
     message |-> "Incorrect jurisdiction - should reference ADGM Courts"],
    [flag_type |-> "missing_adgm_reference",
     patterns |-> << NotFollowed("governing law",
                                 <<"adgm", "abu dhabi global market">>) >>,
     severity |-> "high",
     message |-> "Missing ADGM governing law reference"],
    [flag_type |-> "incomplete_signatures",
     patterns |-> << DotStar("signature", "blank"),
                     Lit("[signature]"),
                     Lit("sign here"),
                     PlusDotStar("_", "signature") >>,
     severity |-> "medium",
     message |-> "Incomplete signature sections found"] >>

\* no "\n" in t[from..to]: the stretch a ".*" can cover
NoNewline(t, from, to) == \A i \in from..to : CharAt(t, i) # "\n"

\* ".*b" matches at position from: b occurs at some j >= from on the same line
DotStarThen(b, t, from) ==
    \E j \in from..(Len(t) - Len(b) + 1) : At(b, t, j) /\ NoNewline(t, from, j - 1)

\* re.search(pattern, t) is not None
re_search(pattern, t) ==
    CASE pattern.shape = "literal" -> In(pattern.a, t)
      [] pattern.shape = "not_followed" ->
            \E i \in 1..(Len(t) - Len(pattern.a) + 1) :
                /\ At(pattern.a, t, i)
                /\ \A n \in 1..Len(pattern.neg) :
                       ~DotStarThen(pattern.neg[n], t, i + Len(pattern.a))
      [] pattern.shape = "dot_star" ->
            \E i \in 1..(Len(t) - Len(pattern.a) + 1) :
                At(pattern.a, t, i) /\ DotStarThen(pattern.b, t, i + Len(pattern.a))
      [] pattern.shape = "plus_dot_star" ->
            \E i \in 1..Len(t) :
                CharAt(t, i) = pattern.a /\ DotStarThen(pattern.b, t, i + 1)

\* the rule's loop leaving at its first matching pattern
RECURSIVE RuleFlagsOnce(_, _, _)
RuleFlagsOnce(config, i, text_lower) ==
    IF i > Len(config.patterns) THEN <<>>
    ELSE IF re_search(config.patterns[i], text_lower)
         THEN << [type |-> config.flag_type,
                  severity |-> config.severity,
                  message |-> config.message,
                  suggestion |-> "Review and correct this issue"] >>
         ELSE RuleFlagsOnce(config, i + 1, text_lower)

\* the flags one rule appends: one per matching pattern, in pattern order
RECURSIVE RuleFlags(_, _, _)
RuleFlags(config, i, text_lower) ==
    IF i > Len(config.patterns) THEN <<>>
    ELSE (IF re_search(config.patterns[i], text_lower)
          THEN << [type |-> config.flag_type,
                   severity |-> config.severity,
                   message |-> config.message,
                   suggestion |-> "Review and correct this issue"] >>
          ELSE <<>>)
         \o RuleFlags(config, i + 1, text_lower)

\* the loop over the table taken from its last rule to its first
RECURSIVE TableFlagsReversed(_, _)
TableFlagsReversed(r, text_lower) ==
    IF r > Len(red_flag_patterns) THEN <<>>
    ELSE TableFlagsReversed(r + 1, text_lower)
         \o RuleFlags(red_flag_patterns[r], 1, text_lower)

\* the loop over self.red_flag_patterns.items()
RECURSIVE TableFlags(_, _)
TableFlags(r, text_lower) ==
    IF r > Len(red_flag_patterns) THEN <<>>
    ELSE RuleFlags(red_flag_patterns[r], 1, text_lower) \o TableFlags(r + 1, text_lower)

\* the flag of the "Check for ADGM reference" block
\* the standing flag with medium severity
adgm_flag_medium ==
    [type |-> "missing_adgm_reference",
     severity |-> "medium",
     message |-> "Document does not reference ADGM or Abu Dhabi Global Market",
     suggestion |-> "Add proper ADGM governing law clause"]

adgm_flag ==
    [type |-> "missing_adgm_reference",
     severity |-> "high",
     message |-> "Document does not reference ADGM or Abu Dhabi Global Market",
     suggestion |-> "Add proper ADGM governing law clause"]

\* the ADGM test with "or" for "and"
lacks_adgm_or(text_lower) ==
    ~In("adgm", text_lower) \/ ~In("abu dhabi global market", text_lower)

\* 'adgm' not in text_lower and 'abu dhabi global market' not in text_lower
lacks_adgm(text_lower) ==
    ~In("adgm", text_lower) /\ ~In("abu dhabi global market", text_lower)

\* the validator deciding overall_status before the ADGM check
validate_document_early_status(d) ==
    LET text_lower == lower(d.text_content)
        table_flags == TableFlags(1, text_lower)
        red_flags == table_flags
                     \o (IF lacks_adgm(text_lower) THEN <<adgm_flag>> ELSE <<>>)
    IN  [document_name |-> d.file_name,
         document_type |-> d.document_type,
         red_flags |-> red_flags,
         overall_status |-> IF table_flags # <<>> THEN "requires_attention"
                            ELSE "compliant"]

\* the validator searching text_content instead of text_lower
validate_document_no_lower(d) ==
    LET text_content == d.text_content
        red_flags == TableFlags(1, text_content)
                     \o (IF lacks_adgm(lower(text_content)) THEN <<adgm_flag>> ELSE <<>>)
    IN  [document_name |-> d.file_name,
         document_type |-> d.document_type,
         red_flags |-> red_flags,
         overall_status |-> IF red_flags # <<>> THEN "requires_attention" ELSE "compliant"]

\* the result with document_type read under a key the record does not have
validate_document_wrong_key(d) ==
    LET text_content == d.text_content
        text_lower == lower(text_content)
        red_flags == TableFlags(1, text_lower)
                     \o (IF lacks_adgm(text_lower) THEN <<adgm_flag>> ELSE <<>>)
    IN  [document_name |-> d.file_name,
         document_type |-> "unknown",
         red_flags |-> red_flags,
         overall_status |-> IF red_flags # <<>> THEN "requires_attention" ELSE "compliant"]

validate_document(d) ==
    LET text_content == d.text_content
        text_lower == lower(text_content)
        red_flags == TableFlags(1, text_lower)
                     \o (IF lacks_adgm(text_lower) THEN <<adgm_flag>> ELSE <<>>)
    IN  [document_name |-> d.file_name,
         document_type |-> d.document_type,
         red_flags |-> red_flags,
         overall_status |-> IF red_flags # <<>> THEN "requires_attention" ELSE "compliant"]

\* --------------------------------------------------------- the documents
\* Paragraphs a .docx may hold: keywords of every document type in mixed
\* case, the regulator's name in both forms, and text the red-flag table reads.
Paragraphs == {
    "",
    "Board Resolution",
    "It is RESOLVED THAT",
    "Share Capital and Board of Directors",
    "Articles of Association",
    "UBO Declaration: owns 25%",
    "The unemployee has no Salary",
    "Application for Registration and Incorporation",
    "Governing Law: ADGM",
    "ADGM Governing Law",
    "Abu Dhabi Global Market",
    "Disputes go to the Dubai Court",
    "Subject to UAE Federal Law",
    "Abu Dhabi Court of the Global Market",
    "Signature: ____ [signature]",
    "Lorem ipsum" }

RECURSIVE SeqsUpTo(_, _)
SeqsUpTo(S, n) ==
    IF n = 0 THEN {<<>>}
    ELSE LET shorter == SeqsUpTo(S, n - 1)
         IN  shorter \cup {Append(q, x) : q \in {r \in shorter : Len(r) = n - 1}, x \in S}

Files == {[name |-> "doc.docx", paragraphs |-> ps, tables |-> 0] :
              ps \in SeqsUpTo(Paragraphs, MaxParas)}

NoDoc == [file_name |-> "none"]
NoValidation == [document_name |-> "none"]
NoReport == [process_type |-> "none"]
NoResult == [status |-> "none"]

\* process_documents is not running, and the pattern table is the one written
\* in SimpleValidator.__init__
NoRun ==
    files = <<>> /\ idx = 0 /\ pc = "idle" /\ result = NoResult /\ table_compiles = TRUE

\* ------------------------------------------------- parsing and validating
InitText ==
    /\ doc_info = NoDoc
    /\ validation = NoValidation
    /\ documents = <<>>
    /\ validations = <<>>
    /\ compliance_report = NoReport
    /\ added = 0
    /\ NoRun

\* doc_info = self.document_parser.parse_document(file.name)
ParseDocument ==
    /\ doc_info = NoDoc
    /\ \E file \in Files : doc_info' = parse_document(file)
    /\ UNCHANGED <<validation, documents, validations, compliance_report, added>>
    /\ UNCHANGED run_vars

\* validation = self.document_validator.validate_document(doc_info)
ValidateDocument ==
    /\ doc_info # NoDoc
    /\ validation = NoValidation
    /\ validation' = validate_document(doc_info)
    /\ UNCHANGED <<doc_info, documents, validations, compliance_report, added>>
    /\ UNCHANGED run_vars

NextText == ParseDocument \/ ValidateDocument

SpecText == InitText /\ [][NextText]_vars

\* ------------------------------------------------ SimpleComplianceChecker
\* the requirement list without its last entry
required_docs_without_register == <<
    "articles_of_association",
    "board_resolution",
    "incorporation_form",
    "ubo_declaration" >>

\* self.process_requirements['company_incorporation']['required_docs']
required_docs_company_incorporation == <<
    "articles_of_association",
    "board_resolution",
    "incorporation_form",
    "ubo_declaration",
    "register_members_directors" >>

\* the signal list with incorporation_form added
signal_types_with_form ==
    {"articles_of_association", "board_resolution", "ubo_declaration", "incorporation_form"}

\* the list of the "Identify process" test
signal_types == {"articles_of_association", "board_resolution", "ubo_declaration"}

\* the process test with all() for any()
all_signal_type(doc_types) == \A dtype \in doc_types : dtype \in signal_types

\* any(dtype in [...] for dtype in doc_types)
any_signal_type(doc_types) == \E dtype \in doc_types : dtype \in signal_types

\* the sum counting each distinct flag of a document once
RECURSIVE total_flags_distinct(_)
total_flags_distinct(vs) ==
    IF vs = <<>> THEN 0
    ELSE Cardinality({Head(vs).red_flags[i] : i \in DOMAIN Head(vs).red_flags})
         + total_flags_distinct(Tail(vs))

\* sum(len(v['red_flags']) for v in validations)
RECURSIVE total_flags(_)
total_flags(vs) ==
    IF vs = <<>> THEN 0 ELSE Len(Head(vs).red_flags) + total_flags(Tail(vs))

\* the count taking medium-severity flags in as well
RECURSIVE high_flags_with_medium(_)
high_flags_with_medium(vs) ==
    IF vs = <<>> THEN 0
    ELSE Len(SelectSeq(Head(vs).red_flags, LAMBDA rf : rf.severity \in {"high", "medium"}))
         + high_flags_with_medium(Tail(vs))

\* sum(1 for v in validations for rf in v['red_flags'] if rf['severity'] == 'high')
RECURSIVE high_flags(_)
high_flags(vs) ==
    IF vs = <<>> THEN 0
    ELSE Len(SelectSeq(Head(vs).red_flags, LAMBDA rf : rf.severity = "high"))
         + high_flags(Tail(vs))

\* the chain with the high-severity test ahead of the completeness test
determine_status_high_first(completion_pct, high_issues, missing_docs) ==
    IF high_issues > 2 THEN "major_issues"
    ELSE IF completion_pct < 60 THEN "incomplete"
    ELSE IF high_issues > 0 \/ missing_docs # <<>> THEN "requires_attention"
    ELSE "ready_for_submission"

\* the chain with the completeness threshold at 40
determine_status_40(completion_pct, high_issues, missing_docs) ==
    IF completion_pct < 40 THEN "incomplete"
    ELSE IF high_issues > 2 THEN "major_issues"
    ELSE IF high_issues > 0 \/ missing_docs # <<>> THEN "requires_attention"
    ELSE "ready_for_submission"

\* the chain with the completeness test taken as <= 60
determine_status_le_60(completion_pct, high_issues, missing_docs) ==
    IF completion_pct <= 60 THEN "incomplete"
    ELSE IF high_issues > 2 THEN "major_issues"
    ELSE IF high_issues > 0 \/ missing_docs # <<>> THEN "requires_attention"
    ELSE "ready_for_submission"

\* the chain whose third test leaves the missing documents out
determine_status_ignores_missing(completion_pct, high_issues, missing_docs) ==
    IF completion_pct < 60 THEN "incomplete"
    ELSE IF high_issues > 2 THEN "major_issues"
    ELSE IF high_issues > 0 THEN "requires_attention"
    ELSE "ready_for_submission"

\* the "Determine status" chain
determine_status(completion_pct, high_issues, missing_docs) ==
    IF completion_pct < 60 THEN "incomplete"
    ELSE IF high_issues > 2 THEN "major_issues"
    ELSE IF high_issues > 0 \/ missing_docs # <<>> THEN "requires_attention"
    ELSE "ready_for_submission"

\* the set of types without doc_types.discard('unknown')
doc_types_keep_unknown(docs) == {docs[i].document_type : i \in 1..Len(docs)}

\* the types taken from the first document alone
doc_types_first_only(docs) ==
    IF docs = <<>> THEN {} ELSE {docs[1].document_type} \ {"unknown"}

\* {doc['document_type'] for doc in documents} with 'unknown' discarded
doc_types_of(docs) == {docs[i].document_type : i \in 1..Len(docs)} \ {"unknown"}

\* the percentage with the division truncated before the multiplication
completion_pct_floor(present_docs, required_docs) ==
    (Len(present_docs) \div Len(required_docs)) * 100

\* len(present_docs) / len(required_docs) * 100: a float in the code; over the
\* 5 required documents it is exactly 0.0, 20.0, 40.0, 60.0, 80.0 or 100.0
\* (checked in CPython), kept here as an integer
completion_pct_of(present_docs, required_docs) ==
    (Len(present_docs) * 100) \div Len(required_docs)

\* all orderings of a finite set
RECURSIVE Perms(_)
Perms(S) ==
    IF S = {} THEN {<<>>}
    ELSE UNION {{<<x>> \o q : q \in Perms(S \ {x})} : x \in S}

\* The orders list(doc_types) can come out in: a set of str iterates in hash
\* order, which differs from run to run.  The set is iterated into a list only
\* on the general-review branch; elsewhere no order is observed.
Orders(docs) ==
    IF any_signal_type(doc_types_of(docs))
    THEN {<<>>}
    ELSE Perms(doc_types_of(docs))

\* generate_compliance_report(documents, validations); set_order is the order
\* in which doc_types iterates when list(doc_types) is taken.
generate_compliance_report(docs, vals, set_order) ==
    LET doc_types == doc_types_of(docs)
        incorporation == any_signal_type(doc_types)
        process_type == IF incorporation THEN "company_incorporation" ELSE "general_review"
        process_name == IF incorporation THEN "Company Incorporation"
                        ELSE "General Document Review"
        required_docs == IF incorporation THEN required_docs_company_incorporation ELSE <<>>
        present_docs == IF required_docs # <<>>
                        THEN SelectSeq(required_docs, LAMBDA doc : doc \in doc_types)
                        ELSE set_order
        missing_docs == IF required_docs # <<>>
                        THEN SelectSeq(required_docs, LAMBDA doc : doc \notin doc_types)
                        ELSE <<>>
        completion_pct == IF required_docs # <<>>
                          THEN completion_pct_of(present_docs, required_docs)
                          ELSE 100
        total_red_flags == total_flags(vals)
        high_issues == high_flags(vals)
    IN  [process_type |-> process_type,
         process_name |-> process_name,
         overall_status |-> determine_status(completion_pct, high_issues, missing_docs),
         completeness |->
             [documents_uploaded |-> Len(docs),
              required_documents |-> Len(required_docs),
              present_documents |-> present_docs,
              missing_documents |-> missing_docs,
              completion_percentage |-> completion_pct],
         issues_summary |->
             [total_red_flags |-> total_red_flags,
              high_severity |-> high_issues]]

\* ------------------------------------------------------------ the batches
\* every document_type a DocumentRecord handed to the checker can carry
DocTypeOrder == <<
    "articles_of_association", "board_resolution", "ubo_declaration",
    "employment_contract", "incorporation_form", "register_members_directors",
    "unknown" >>

DocTypes == {DocTypeOrder[i] : i \in DOMAIN DocTypeOrder}

Doc(t) ==
    [file_name |-> t, text_content |-> "", word_count |-> 0,
     paragraph_count |-> 0, table_count |-> 0, document_type |-> t]

RECURSIVE DocsOf(_)
DocsOf(types) == IF types = <<>> THEN <<>> ELSE <<Doc(Head(types))>> \o DocsOf(Tail(types))

\* one batch per set of document types
DocumentBatches ==
    {DocsOf(SelectSeq(DocTypeOrder, LAMBDA t : t \in S)) : S \in SUBSET DocTypes}

Flag(r) ==
    [type |-> red_flag_patterns[r].flag_type,
     severity |-> red_flag_patterns[r].severity,
     message |-> red_flag_patterns[r].message,
     suggestion |-> "Review and correct this issue"]

\* red_flags lists validate_document returns: none, one high and one medium
\* flag, two high flags, the same flag twice (two patterns of one rule match)
FlagLists == { <<>>, <<Flag(1), Flag(3)>>, <<Flag(1), adgm_flag>>, <<Flag(1), Flag(1)>> }

ValidationSamples ==
    {[document_name |-> "doc.docx",
      document_type |-> "unknown",
      red_flags |-> fl,
      overall_status |-> IF fl # <<>> THEN "requires_attention" ELSE "compliant"] :
         fl \in FlagLists}

ValidationBatches == SeqsUpTo(ValidationSamples, MaxVals)

\* --------------------------------------------------- compliance reporting
InitReport ==
    /\ doc_info = NoDoc
    /\ validation = NoValidation
    /\ documents \in DocumentBatches
    /\ validations \in ValidationBatches
    /\ compliance_report = NoReport
    /\ added = 0
    /\ NoRun

\* the caller appends one more DocumentRecord to the batch
AddDocument ==
    /\ added < MaxAdded
    /\ \E t \in DocTypes : documents' = Append(documents, Doc(t))
    /\ added' = added + 1
    /\ compliance_report' = NoReport
    /\ UNCHANGED <<doc_info, validation, validations>>
    /\ UNCHANGED run_vars

\* compliance_report = self.compliance_checker.generate_compliance_report(...)
GenerateComplianceReport ==
    /\ compliance_report = NoReport
    /\ \E set_order \in Orders(documents) :
           compliance_report' = generate_compliance_report(documents, validations, set_order)
    /\ UNCHANGED <<doc_info, validation, documents, validations, added>>
    /\ UNCHANGED run_vars

NextReport == AddDocument \/ GenerateComplianceReport

SpecReport == InitReport /\ [][NextReport]_vars

\* ------------------------------------------ ADGMCorporateAgent: uploads
\* The files a user uploads: one python-docx cannot open, and five it can.
Uploads == {
    [name |-> "corrupt.docx", readable |-> FALSE, paragraphs |-> <<>>, tables |-> 0],
    [name |-> "articles.docx", readable |-> TRUE, tables |-> 0,
     paragraphs |-> <<"Articles of Association">>],
    [name |-> "board.docx", readable |-> TRUE, tables |-> 0,
     paragraphs |-> <<"Board Resolution", "Disputes go to the Dubai Court">>],
    [name |-> "ubo.docx", readable |-> TRUE, tables |-> 0,
     paragraphs |-> <<"UBO Declaration: owns 25%", "Governing Law: ADGM">>],
    [name |-> "form.docx", readable |-> TRUE, tables |-> 0,
     paragraphs |-> <<"Application for Registration and Incorporation",
                      "Signature: ____ [signature]">>],
    [name |-> "register.docx", readable |-> TRUE, tables |-> 0,
     paragraphs |-> <<"Register of Members and Directors", "Abu Dhabi Global Market">>] }

\* ------------------------------------- ADGMCorporateAgent: status message
UpperOf ==
    [c \in {CharAt(LowerAlpha, i) : i \in 1..26} |->
        CharAt(UpperAlpha, CHOOSE i \in 1..26 : CharAt(LowerAlpha, i) = c)]

IsLetter(c) == c \in DOMAIN UpperOf \/ c \in DOMAIN LowerOf

\* doc.replace('_', ' ').title(): every letter that follows a non-letter is
\* upper-cased, every other letter lower-cased
RECURSIVE TitleFrom(_, _)
TitleFrom(s, i) ==
    IF i > Len(s) THEN ""
    ELSE LET c == IF CharAt(s, i) = "_" THEN " " ELSE CharAt(s, i)
             first == i = 1 \/ ~IsLetter(CharAt(s, i - 1))
         IN  (IF first /\ c \in DOMAIN UpperOf THEN UpperOf[c]
              ELSE IF ~first THEN LowerChar(c)
              ELSE c)
             \o TitleFrom(s, i + 1)

title_of(doc) == TitleFrom(doc, 1)

\* status_icons.get(status, ...)
status_icon(status) ==
    CASE status = "ready_for_submission" -> "check"
      [] status = "requires_attention" -> "warning"
      [] status = "major_issues" -> "cross"
      [] status = "incomplete" -> "clipboard"
      [] OTHER -> "page"

\* the message listing the last three missing documents
_generate_status_message_last_three(report, doc_count) ==
    LET missing == report.completeness.missing_documents
        shown == SubSeq(missing, IF Len(missing) < 3 THEN 1 ELSE Len(missing) - 2,
                        Len(missing))
    IN  [kind |-> "analysis_complete",
         icon |-> status_icon(report.overall_status),
         process_name |-> report.process_name,
         completion |-> report.completeness.completion_percentage,
         doc_count |-> doc_count,
         missing |-> [i \in DOMAIN shown |-> title_of(shown[i])],
         high_issues |-> report.issues_summary.high_severity]

\* _generate_status_message(compliance_report, doc_count): the parts of the
\* message, the missing documents cut to missing[:3]
_generate_status_message(report, doc_count) ==
    LET missing == report.completeness.missing_documents
        shown == SubSeq(missing, 1, IF Len(missing) < 3 THEN Len(missing) ELSE 3)
    IN  [kind |-> "analysis_complete",
         icon |-> status_icon(report.overall_status),
         process_name |-> report.process_name,
         completion |-> report.completeness.completion_percentage,
         doc_count |-> doc_count,
         missing |-> [i \in DOMAIN shown |-> title_of(shown[i])],
         high_issues |-> report.issues_summary.high_severity]

\* ------------------------------- ADGMCorporateAgent.process_documents
\* parse_document and validate_document over the uploads, computed once
parsed_upload == [file \in Uploads |-> parse_document(file)]

validated_upload == [file \in Uploads |-> validate_document(parsed_upload[file])]

InitProcess ==
    /\ files \in SeqsUpTo(Uploads, MaxFiles)
    /\ idx = 0
    /\ pc = "start"
    /\ result = NoResult
    /\ doc_info = NoDoc
    /\ validation = NoValidation
    /\ documents = <<>>
    /\ validations = <<>>
    /\ compliance_report = NoReport
    /\ added = 0
    /\ table_compiles \in BOOLEAN

\* if not files: return "No files uploaded...", "", ""
NoFilesUploaded ==
    /\ pc = "start"
    /\ files = <<>>
    /\ result' = [status |-> [kind |-> "no_files"], json_path |-> "", text_path |-> ""]
    /\ pc' = "done"
    /\ UNCHANGED <<doc_info, validation, documents, validations, compliance_report,
                   added, files, idx, table_compiles>>

\* uploaded_documents = []; document_analyses = []; the loop is entered
StartAnalysis ==
    /\ pc = "start"
    /\ files # <<>>
    /\ documents' = <<>>
    /\ validations' = <<>>
    /\ idx' = 1
    /\ pc' = "loop"
    /\ UNCHANGED <<doc_info, validation, compliance_report, added, files, result, table_compiles>>

\* the failed parse also leaving an unknown-typed document with empty text
ParseFailsKeepsUnknown ==
    /\ pc = "loop"
    /\ idx <= Len(files)
    /\ ~files[idx].readable
    /\ documents' = Append(documents,
                           [file_name |-> files[idx].name, text_content |-> "",
                            word_count |-> 0, paragraph_count |-> 0, table_count |-> 0,
                            document_type |-> "unknown"])
    /\ idx' = idx + 1
    /\ UNCHANGED <<doc_info, validation, validations, compliance_report, added,
                   files, pc, result, table_compiles>>

\* parse_document raises: the except clause logs the error and continues
ParseFails ==
    /\ pc = "loop"
    /\ idx <= Len(files)
    /\ ~files[idx].readable
    /\ idx' = idx + 1
    /\ UNCHANGED <<doc_info, validation, documents, validations, compliance_report,
                   added, files, pc, result, table_compiles>>

\* one pass of the loop body without an exception
ProcessFile ==
    /\ pc = "loop"
    /\ idx <= Len(files)
    /\ files[idx].readable
    /\ table_compiles
    /\ doc_info' = parsed_upload[files[idx]]
    /\ documents' = Append(documents, parsed_upload[files[idx]])
    /\ validation' = validated_upload[files[idx]]
    /\ validations' = Append(validations, validated_upload[files[idx]])
    /\ idx' = idx + 1
    /\ UNCHANGED <<compliance_report, added, files, pc, result, table_compiles>>

\* validate_document raises after doc_info was appended (re.search compiles
\* each pattern when it is called, so a malformed pattern raises re.error
\* here, for every document): the except clause logs the error and continues
ValidateRaises ==
    /\ pc = "loop"
    /\ idx <= Len(files)
    /\ files[idx].readable
    /\ doc_info' = parsed_upload[files[idx]]
    /\ documents' = Append(documents, parsed_upload[files[idx]])
    /\ idx' = idx + 1
    /\ UNCHANGED <<validation, validations, compliance_report, added, files, pc, result,
                   table_compiles>>

\* compliance_report = generate_compliance_report(uploaded_documents,
\*                                                document_analyses)
ComputeReport ==
    /\ pc = "loop"
    /\ idx > Len(files)
    /\ \E set_order \in Orders(documents) :
           compliance_report' = generate_compliance_report(documents, validations, set_order)
    /\ pc' = "write"
    /\ UNCHANGED <<doc_info, validation, documents, validations, added, files, idx, result,
                   table_compiles>>

\* generate_json_report and generate_text_report write their files
WriteReports ==
    /\ pc = "write"
    /\ pc' = "status"
    /\ UNCHANGED <<doc_info, validation, documents, validations, compliance_report,
                   added, files, idx, result, table_compiles>>

\* the failure of report writing leaving process_documents without a result
WriteReportsFailPropagates ==
    /\ pc = "write"
    /\ pc' = "done"
    /\ UNCHANGED <<doc_info, validation, documents, validations, compliance_report,
                   added, files, idx, result, table_compiles>>

\* writing a report raises: the outer except clause returns the error
WriteReportsFail ==
    /\ pc = "write"
    /\ result' = [status |-> [kind |-> "error"], json_path |-> "", text_path |-> ""]
    /\ pc' = "done"
    /\ UNCHANGED <<doc_info, validation, documents, validations, compliance_report,
                   added, files, idx, table_compiles>>

\* the status message that also cuts the report's missing list to three
StatusMessageCutsReport ==
    /\ pc = "status"
    /\ result' = [status |-> _generate_status_message(compliance_report, Len(documents)),
                  json_path |-> "output/adgm_analysis.json",
                  text_path |-> "output/adgm_report.txt"]
    /\ compliance_report' =
           [compliance_report EXCEPT !.completeness.missing_documents =
               SubSeq(@, 1, IF Len(@) < 3 THEN Len(@) ELSE 3)]
    /\ pc' = "done"
    /\ UNCHANGED <<doc_info, validation, documents, validations, added, files, idx, table_compiles>>

\* status = self._generate_status_message(...); return status, json_path, text_path
StatusMessage ==
    /\ pc = "status"
    /\ result' = [status |-> _generate_status_message(compliance_report, Len(documents)),
                  json_path |-> "output/adgm_analysis.json",
                  text_path |-> "output/adgm_report.txt"]
    /\ pc' = "done"
    /\ UNCHANGED <<doc_info, validation, documents, validations, compliance_report,
                   added, files, idx, table_compiles>>

NextProcess ==
    \/ NoFilesUploaded
    \/ StartAnalysis
    \/ ParseFails
    \/ ProcessFile
    \/ ValidateRaises
    \/ ComputeReport
    \/ WriteReports
    \/ WriteReportsFail
    \/ StatusMessage

SpecProcess == InitProcess /\ [][NextProcess]_vars

\* process_documents is one sequential call: while a step is left, one is taken
FairProcess == SpecProcess /\ WF_vars(NextProcess)

\* every sequence of at most n files of S that holds no file twice
DistinctSeqs(S, n) == UNION {Perms(T) : T \in {U \in SUBSET S : Cardinality(U) <= n}}

\* a run over files all different, long enough to hold four of the five
\* required documents
InitBatch ==
    /\ files \in DistinctSeqs(Uploads, MaxBatch)
    /\ idx = 0
    /\ pc = "start"
    /\ result = NoResult
    /\ doc_info = NoDoc
    /\ validation = NoValidation
    /\ documents = <<>>
    /\ validations = <<>>
    /\ compliance_report = NoReport
    /\ added = 0
    /\ table_compiles = TRUE

SpecBatch == InitBatch /\ [][NextProcess]_vars

\* ------------------------------------------------- the report's properties
Range(q) == {q[i] : i \in DOMAIN q}

Reported == compliance_report # NoReport

\* the report's own numbers
Pct == compliance_report.completeness.completion_percentage
Missing == compliance_report.completeness.missing_documents
Present == compliance_report.completeness.present_documents
High == compliance_report.issues_summary.high_severity
Status == compliance_report.overall_status

\* the document types of the batch, 'unknown' included
Observed == {documents[i].document_type : i \in 1..Len(documents)}

\* C1: overall_status is the first matching rule of: completion < 60 gives
\* incomplete; else more than 2 high flags gives major_issues; else a high
\* flag or a missing document gives requires_attention; else
\* ready_for_submission.
C1_StatusByFirstRule ==
    Reported =>
        /\ Pct < 60 => Status = "incomplete"
        /\ (Pct >= 60 /\ High > 2) => Status = "major_issues"
        /\ (Pct >= 60 /\ High <= 2 /\ (High > 0 \/ Missing # <<>>))
               => Status = "requires_attention"
        /\ (Pct >= 60 /\ High = 0 /\ Missing = <<>>) => Status = "ready_for_submission"

\* a report where rule 2 wins over rule 3: complete enough, documents missing,
\* more than 2 high flags
C1_Witness ==
    Reported /\ Pct >= 60 /\ Missing # <<>> /\ High > 2 /\ Status = "major_issues"

\* C2: the status is one of the four values, and a completion below 60 is
\* incomplete whatever the number of high flags (40 with 0 high flags, 40 with
\* more than 2).
C2_IncompleteDominates ==
    Reported =>
        /\ Status \in {"incomplete", "major_issues", "requires_attention",
                       "ready_for_submission"}
        /\ Pct < 60 => Status = "incomplete"
        /\ (Pct = 40 /\ (High = 0 \/ High > 2))
               => Status \notin {"major_issues", "requires_attention"}

\* a report at 40 percent with more than 2 high flags, reported incomplete
C2_Witness == Reported /\ Pct = 40 /\ High > 2 /\ Status = "incomplete"

\* C3: with a non-empty requirement list R, present is R restricted to the
\* observed types, missing is R without them, completion is
\* 100 * |present| / |R|; observed {articles_of_association, board_resolution}
\* gives 40 and missing incorporation_form, ubo_declaration,
\* register_members_directors.
C3_CompletenessMath ==
    (Reported /\ compliance_report.completeness.required_documents > 0) =>
        LET R == {"articles_of_association", "board_resolution", "incorporation_form",
                  "ubo_declaration", "register_members_directors"}
        IN  /\ compliance_report.completeness.required_documents = Cardinality(R)
            /\ Range(Present) = R \cap Observed
            /\ Range(Missing) = R \ Observed
            /\ Len(Present) = Cardinality(Range(Present))
            /\ Len(Missing) = Cardinality(Range(Missing))
            /\ Pct * Cardinality(R) = 100 * Len(Present)
            /\ (Observed \ {"unknown"} = {"articles_of_association", "board_resolution"})
                   => /\ Pct = 40
                      /\ Missing = <<"incorporation_form", "ubo_declaration",
                                     "register_members_directors">>

\* the report of a batch holding exactly articles_of_association and
\* board_resolution
C3_Witness ==
    /\ Reported
    /\ Observed = {"articles_of_association", "board_resolution"}
    /\ Pct = 40
    /\ Len(Missing) = 3

\* C4: with the empty requirement list (general review) present is the
\* observed types other than unknown, missing is empty and completion is 100.
C4_GeneralReview ==
    (Reported /\ compliance_report.completeness.required_documents = 0) =>
        /\ Range(Present) = Observed \ {"unknown"}
        /\ Len(Present) = Cardinality(Observed \ {"unknown"})
        /\ Missing = <<>>
        /\ Pct = 100

\* a general-review report of a batch with an unknown document and two known
\* types
C4_Witness ==
    /\ Reported
    /\ compliance_report.completeness.required_documents = 0
    /\ "unknown" \in Observed
    /\ Len(Present) = 2

\* C5: the process is company_incorporation exactly when an observed type is
\* articles_of_association, board_resolution or ubo_declaration; otherwise it
\* is general_review with an empty requirement list.
C5_ProcessSelection ==
    Reported =>
        LET signalled == Observed \cap {"articles_of_association", "board_resolution",
                                        "ubo_declaration"} # {}
        IN  /\ signalled <=> compliance_report.process_type = "company_incorporation"
            /\ signalled => compliance_report.completeness.required_documents = 5
            /\ ~signalled =>
                   /\ compliance_report.process_type = "general_review"
                   /\ compliance_report.completeness.required_documents = 0

\* a batch of incorporation_form, employment_contract and unknown documents,
\* reported as a general review
C5_Witness ==
    /\ Reported
    /\ Observed = {"incorporation_form", "employment_contract", "unknown"}
    /\ compliance_report.process_type = "general_review"

\* the report of the batch as it was before its last document was appended
Before(set_order) ==
    generate_compliance_report(SubSeq(documents, 1, Len(documents) - 1),
                               validations, set_order)

LastType == documents[Len(documents)].document_type

\* C6: appending a document whose type is missing makes missing_documents
\* shorter and completion_percentage greater; appending one whose type is
\* present, or unknown, leaves both unchanged; the process stays the same.
C6_Monotone ==
    (Reported /\ added > 0) =>
        \A set_order \in Orders(SubSeq(documents, 1, Len(documents) - 1)) :
            LET before == Before(set_order)
            IN  /\ LastType \in Range(before.completeness.missing_documents) =>
                       /\ Len(Missing) < Len(before.completeness.missing_documents)
                       /\ Pct > before.completeness.completion_percentage
                       /\ compliance_report.process_type = before.process_type
                /\ (LastType \in Range(before.completeness.present_documents)
                        \/ LastType = "unknown") =>
                       /\ Missing = before.completeness.missing_documents
                       /\ Pct = before.completeness.completion_percentage
                       /\ compliance_report.process_type = before.process_type

\* the last missing document was appended and the batch is now complete
C6_Witness ==
    /\ Reported
    /\ added > 0
    /\ LastType = "register_members_directors"
    /\ Before(<<>>).completeness.completion_percentage = 80
    /\ Pct = 100

\* ---------------------------------------------- the classifier's properties
Parsed == doc_info # NoDoc

\* the number of type i's keywords occurring in the lower-cased text t
Hits(i, t) == Cardinality({k \in Range(patterns[i].keywords) : In(k, t)})

\* the catalog position of a document type, 0 for unknown
Position(ty) ==
    IF \E i \in DOMAIN patterns : patterns[i].doc_type = ty
    THEN CHOOSE i \in DOMAIN patterns : patterns[i].doc_type = ty
    ELSE 0

\* C7: the returned type has a positive score, the number of its keywords
\* occurring in the lower-cased text, and no type scores higher; a text with
\* "Board Resolution" and "resolved that" and no keyword of another type is a
\* board_resolution.
C7_MaxScore ==
    Parsed =>
        LET r == Position(doc_info.document_type)
            t == lower(doc_info.text_content)
        IN  /\ doc_info.document_type # "unknown" =>
                   /\ r \in DOMAIN patterns
                   /\ Hits(r, t) > 0
                   /\ \A i \in DOMAIN patterns : Hits(i, t) <= Hits(r, t)
            /\ (/\ In("board resolution", t)
                /\ In("resolved that", t)
                /\ \A i \in DOMAIN patterns :
                       patterns[i].doc_type # "board_resolution" => Hits(i, t) = 0)
                   => doc_info.document_type = "board_resolution"

\* a document holding "Board Resolution" and "It is RESOLVED THAT" only
C7_Witness ==
    /\ Parsed
    /\ doc_info.text_content = "Board Resolution\nIt is RESOLVED THAT"
    /\ doc_info.document_type = "board_resolution"

\* C8: a text with no configured keyword is unknown, and a text with at least
\* one is never unknown.
C8_UnknownIffNoKeyword ==
    Parsed =>
        LET t == lower(doc_info.text_content)
        IN  /\ (doc_info.document_type = "unknown")
                   <=> (\A i \in DOMAIN patterns : Hits(i, t) = 0)
            /\ doc_info.document_type \in
                   {patterns[i].doc_type : i \in DOMAIN patterns} \cup {"unknown"}

\* a text without keywords classified unknown
C8_Witness ==
    /\ Parsed
    /\ doc_info.text_content = "Lorem ipsum\nAbu Dhabi Global Market"
    /\ doc_info.document_type = "unknown"

\* C9: among the types sharing the maximum score the one declared first in
\* the catalog is returned: every type declared earlier scores strictly less.
C9_TieFirstDeclared ==
    (Parsed /\ doc_info.document_type # "unknown") =>
        LET r == Position(doc_info.document_type)
            t == lower(doc_info.text_content)
        IN  /\ <<patterns[1].doc_type, patterns[2].doc_type, patterns[3].doc_type,
                 patterns[4].doc_type, patterns[5].doc_type>>
                   = <<"articles_of_association", "board_resolution", "ubo_declaration",
                       "employment_contract", "incorporation_form">>
            /\ \A i \in DOMAIN patterns :
                   /\ i < r => Hits(i, t) < Hits(r, t)
                   /\ i > r => Hits(i, t) <= Hits(r, t)

\* ubo_declaration, employment_contract and incorporation_form tie at 2 and
\* ubo_declaration is returned
C9_Witness ==
    /\ Parsed
    /\ Hits(3, lower(doc_info.text_content)) = 2
    /\ Hits(4, lower(doc_info.text_content)) = 2
    /\ doc_info.document_type = "ubo_declaration"

\* ----------------------------------------------- the validator's properties
Validated == validation # NoValidation

\* neither form of the regulator's name occurs, case-insensitively
NoRegulator ==
    LET t == lower(doc_info.text_content)
    IN  ~In("adgm", t) /\ ~In("abu dhabi global market", t)

\* C10 as stated: a flag of type missing_adgm_reference is emitted if and only
\* if neither 'adgm' nor 'abu dhabi global market' occurs in the text.
C10_Original ==
    Validated =>
        ((\E i \in DOMAIN validation.red_flags :
              validation.red_flags[i].type = "missing_adgm_reference")
         <=> NoRegulator)

\* C10, amended: the standing flag, of type missing_adgm_reference and message
\* "Document does not reference ADGM or Abu Dhabi Global Market", is emitted
\* (once, last) if and only if neither 'adgm' nor 'abu dhabi global market'
\* occurs in the text case-insensitively; every other flag of that type comes
\* from the table's "governing law" rule.
C10_StandingFlag ==
    Validated =>
        LET flags == validation.red_flags
            standing == {i \in DOMAIN flags :
                /\ flags[i].type = "missing_adgm_reference"
                /\ flags[i].message
                       = "Document does not reference ADGM or Abu Dhabi Global Market"}
        IN  /\ standing # {} <=> NoRegulator
            /\ standing \subseteq {Len(flags)}
            /\ \A i \in DOMAIN flags :
                   (flags[i].type = "missing_adgm_reference" /\ i \notin standing)
                       => /\ flags[i].message = "Missing ADGM governing law reference"
                          /\ In("governing law", lower(doc_info.text_content))

\* a text naming ADGM that still gets a missing_adgm_reference flag, from the
\* "governing law" rule, and no standing flag
C10_Witness ==
    /\ Validated
    /\ doc_info.text_content = "ADGM Governing Law"
    /\ Len(validation.red_flags) = 1
    /\ validation.red_flags[1].type = "missing_adgm_reference"
    /\ validation.red_flags[1].message = "Missing ADGM governing law reference"

\* the flags of red_flags that rule r of the table appended
FlagsOfRule(r) ==
    {i \in DOMAIN validation.red_flags :
        /\ validation.red_flags[i].type = red_flag_patterns[r].flag_type
        /\ validation.red_flags[i].severity = red_flag_patterns[r].severity
        /\ validation.red_flags[i].message = red_flag_patterns[r].message}

\* the patterns of rule r that match the lower-cased text t
Matching(r, t) ==
    {p \in DOMAIN red_flag_patterns[r].patterns :
        re_search(red_flag_patterns[r].patterns[p], t)}

\* C11: each rule of the table produces one flag per matching pattern, with
\* the rule's type, severity and message, and nothing is de-duplicated: the
\* number of its flags is the number of its patterns that match.
C11_OneFlagPerPattern ==
    Validated =>
        LET t == lower(doc_info.text_content)
        IN  \A r \in DOMAIN red_flag_patterns :
                Cardinality(FlagsOfRule(r)) = Cardinality(Matching(r, t))

\* two patterns of incomplete_signatures match and two of its flags are emitted
C11_Witness ==
    /\ Validated
    /\ doc_info.text_content = "Signature: ____ [signature]"
    /\ Cardinality(FlagsOfRule(3)) = 2

\* the standing flag's place in the evaluation order is after the table
IsStanding(flag) ==
    flag.message = "Document does not reference ADGM or Abu Dhabi Global Market"

\* the position in the evaluation order of the rule that produced a flag
RuleOf(flag) ==
    IF IsStanding(flag) THEN Len(red_flag_patterns) + 1
    ELSE CHOOSE r \in DOMAIN red_flag_patterns :
             /\ red_flag_patterns[r].flag_type = flag.type
             /\ red_flag_patterns[r].message = flag.message

\* C12: red_flags is in rule evaluation order: the rules in the order
\* jurisdiction_issues, missing_adgm_reference, incomplete_signatures, the
\* standing flag last; no flag precedes a flag of an earlier rule.
C12_EvaluationOrder ==
    Validated =>
        LET flags == validation.red_flags
        IN  /\ <<red_flag_patterns[1].flag_type, red_flag_patterns[2].flag_type,
                 red_flag_patterns[3].flag_type>>
                   = <<"jurisdiction_issues", "missing_adgm_reference",
                       "incomplete_signatures">>
            /\ \A i, j \in DOMAIN flags : i < j => RuleOf(flags[i]) <= RuleOf(flags[j])
            /\ \A i \in DOMAIN flags : IsStanding(flags[i]) => i = Len(flags)

\* flags of the first rule, the third rule and the standing rule, in that order
C12_Witness ==
    /\ Validated
    /\ Len(validation.red_flags) = 4
    /\ validation.red_flags[1].type = "jurisdiction_issues"
    /\ validation.red_flags[2].type = "incomplete_signatures"
    /\ validation.red_flags[3].type = "incomplete_signatures"
    /\ IsStanding(validation.red_flags[4])

\* C13: overall_status is requires_attention if and only if red_flags is
\* non-empty, and compliant otherwise.
C13_StatusIffFlags ==
    Validated =>
        /\ validation.overall_status \in {"requires_attention", "compliant"}
        /\ validation.overall_status = "requires_attention"
               <=> Len(validation.red_flags) > 0

\* a document whose only flag is the standing one requires attention
C13_Witness ==
    /\ Validated
    /\ doc_info.text_content = "Lorem ipsum"
    /\ Len(validation.red_flags) = 1
    /\ validation.overall_status = "requires_attention"

\* C14: a text containing "Dubai Court" gets a jurisdiction_issues flag of
\* severity high, exactly one when no other jurisdiction pattern matches.
C14_DubaiCourt ==
    (Validated /\ In("dubai court", lower(doc_info.text_content))) =>
        LET t == lower(doc_info.text_content)
            J == {i \in DOMAIN validation.red_flags :
                     validation.red_flags[i].type = "jurisdiction_issues"}
        IN  /\ J # {}
            /\ \A i \in J : validation.red_flags[i].severity = "high"
            /\ Matching(1, t) = {2} => Cardinality(J) = 1

\* the text "Disputes go to the Dubai Court": one jurisdiction_issues flag,
\* followed by the standing flag since the text does not name ADGM
C14_Witness ==
    /\ Validated
    /\ doc_info.text_content = "Disputes go to the Dubai Court"
    /\ Len(validation.red_flags) = 2
    /\ validation.red_flags[1].type = "jurisdiction_issues"
    /\ validation.red_flags[1].severity = "high"

\* C15: the report of the empty batch is well-formed: no documents, no
\* required documents, empty present and missing lists, completion 100,
\* process general_review and status ready_for_submission.
C15_EmptyBatch ==
    (Reported /\ documents = <<>> /\ validations = <<>>) =>
        /\ compliance_report.completeness.documents_uploaded = 0
        /\ compliance_report.completeness.required_documents = 0
        /\ Present = <<>>
        /\ Missing = <<>>
        /\ Pct = 100
        /\ compliance_report.process_type = "general_review"
        /\ Status = "ready_for_submission"
        /\ compliance_report.issues_summary.total_red_flags = 0
        /\ High = 0

\* the report of the empty batch has been computed
C15_Witness ==
    /\ Reported
    /\ documents = <<>>
    /\ validations = <<>>
    /\ added = 0
    /\ Status = "ready_for_submission"

\* ------------------------------------- process_documents' properties
Readable(fs) == SelectSeq(fs, LAMBDA f : f.readable)

\* the files the loop has been through
Attempted == SubSeq(files, 1, idx - 1)

LoopOver == pc \in {"write", "status"} \/ (pc = "done" /\ files # <<>>)

\* C16: a file parse_document fails on contributes neither a document nor a
\* validation (it is not kept as an unknown-typed document with empty text):
\* the documents held are exactly those of the readable files gone through
\* so far, in order; the loop goes on through every remaining file, and a
\* compliance report is produced over the documents that succeeded.
C16_FailedParseExcluded ==
    LET ok == Readable(Attempted)
    IN  /\ Len(documents) = Len(ok)
        /\ \A i \in DOMAIN documents :
               /\ documents[i].file_name = ok[i].name
               /\ documents[i].paragraph_count = Len(ok[i].paragraphs)
        /\ \A i \in DOMAIN validations : \A j \in DOMAIN files :
               validations[i].document_name = files[j].name => files[j].readable
        /\ LoopOver =>
               /\ idx = Len(files) + 1
               /\ Reported
               /\ compliance_report.completeness.documents_uploaded = Len(Readable(files))

C16_Witness ==
    /\ pc = "done"
    /\ Len(files) = 3
    /\ ~files[1].readable
    /\ files[2].readable /\ files[3].readable
    /\ Len(documents) = 2
    /\ Len(validations) = 2
    /\ Reported
    /\ compliance_report.completeness.documents_uploaded = 2

\* C17: when generate_compliance_report is called, uploaded_documents and
\* document_analyses have the same length and the i-th validation belongs to
\* the i-th document, whatever succeeded or failed per file.
C17_PairedLists ==
    pc = "write" =>
        /\ Len(documents) = Len(validations)
        /\ \A i \in DOMAIN documents :
               i \in DOMAIN validations =>
                   validations[i].document_name = documents[i].file_name

\* C18: the compliance report is computed exactly once in a run, only after
\* every uploaded file has been attempted, from the full lists of successful
\* documents in upload order, and neither report writing nor status-message
\* formatting changes it afterwards.
C18_ComputedOnce ==
    [][compliance_report' # compliance_report =>
           /\ compliance_report = NoReport
           /\ pc = "loop" /\ idx = Len(files) + 1
           /\ Len(documents) = Len(Readable(files))
           /\ \A i \in DOMAIN documents :
                  documents[i] = parse_document(Readable(files)[i])
           /\ \E set_order \in Orders(documents) :
                  compliance_report' =
                      generate_compliance_report(documents, validations, set_order)
           /\ compliance_report' # NoReport]_vars

C18_Witness ==
    /\ pc = "done"
    /\ Reported
    /\ result # NoResult
    /\ result.status.kind = "analysis_complete"
    /\ Len(Missing) = 4
    /\ Len(result.status.missing) = 3

Permuted(seq, p) == [i \in 1..Len(seq) |-> seq[p[i]]]

Verdict(report) ==
    <<report.process_type,
      report.completeness.missing_documents,
      report.completeness.completion_percentage,
      report.issues_summary.total_red_flags,
      report.issues_summary.high_severity,
      report.overall_status>>

\* C20: the verdict does not depend on the order of the documents: for every
\* permutation of the documents and of their validations,
\* generate_compliance_report gives the same process_type, missing_documents,
\* completion_percentage, red-flag counts and overall_status.
C20_OrderIndependent ==
    pc = "write" =>
        \A p \in Perms(DOMAIN documents) : \A q \in Perms(DOMAIN validations) :
            LET docs == Permuted(documents, p)
                vals == Permuted(validations, q)
            IN  \A set_order \in Orders(docs) :
                    Verdict(generate_compliance_report(docs, vals, set_order))
                        = Verdict(compliance_report)

C20_Witness ==
    /\ pc = "write"
    /\ Len(documents) = 3
    /\ Len(validations) = 3
    /\ documents[1].document_type = "unknown"
    /\ documents[2].document_type = "articles_of_association"
    /\ documents[3].document_type = "board_resolution"
    /\ Len(validations[1].red_flags) # Len(validations[3].red_flags)
    /\ compliance_report.process_type = "company_incorporation"
    /\ Pct = 40

\* ------------------------------------------ the status message's properties
Returned == pc = "done" /\ result # NoResult /\ result.status.kind = "analysis_complete"

RequiredIndex(doc) ==
    CHOOSE i \in DOMAIN required_docs_company_incorporation :
        required_docs_company_incorporation[i] = doc

\* C21: missing_documents is listed in the requirement list's declared order
\* (not upload order), and the status message shows at most the first three
\* entries of that sequence, in that order.
C21_MissingOrder ==
    /\ Reported =>
           /\ \A i \in DOMAIN Missing :
                  Missing[i] \in Range(required_docs_company_incorporation)
           /\ \A i, j \in DOMAIN Missing :
                  i < j => RequiredIndex(Missing[i]) < RequiredIndex(Missing[j])
    /\ Returned =>
           /\ Len(result.status.missing) = (IF Len(Missing) < 3 THEN Len(Missing) ELSE 3)
           /\ \A i \in DOMAIN result.status.missing :
                  result.status.missing[i] = title_of(Missing[i])

\* only ubo.docx could be read: four documents are missing and the message
\* lists the first three, in the requirement list's order
C21_Witness ==
    /\ Returned
    /\ Len(documents) = 1
    /\ documents[1].document_type = "ubo_declaration"
    /\ Missing = <<"articles_of_association", "board_resolution", "incorporation_form",
                   "register_members_directors">>
    /\ result.status.missing = <<"Articles Of Association", "Board Resolution",
                                 "Incorporation Form">>

\* ------------------------------------------- the pattern table's properties
\* C22: a malformed regular expression in the red-flag pattern table is fatal
\* at startup: with such a table the validator is never initialized, so no
\* file is gone through (the error is not raised per document, nor skipped
\* while the batch continues) and no report is computed.
C22_FatalAtStartup ==
    ~table_compiles => idx <= 1 /\ documents = <<>> /\ ~Reported

\* ------------------------------------------- the records' frame properties
\* C23: a document's document_type is set once, by the classifier inside
\* parse_document: whatever runs afterwards (validate_document,
\* generate_compliance_report, the rest of process_documents) leaves every
\* field of every DocumentRecord as it was, and a ValidationResult carries
\* its record's document_type.
C23_RecordsUnchanged ==
    [][/\ \A i \in DOMAIN documents :
              i \in DOMAIN documents' /\ documents'[i] = documents[i]
       /\ Len(documents') > Len(documents) =>
              LET d == documents'[Len(documents')]
              IN  /\ Len(documents') = Len(documents) + 1
                  /\ d.document_type = _identify_document_type(d.text_content)
       /\ Len(validations') > Len(validations) =>
              LET v == validations'[Len(validations')]
                  d == documents'[Len(documents')]
              IN  /\ Len(documents') > Len(documents)
                  /\ v.document_name = d.file_name
                  /\ v.document_type = d.document_type]_vars

C23_Witness ==
    /\ pc = "done"
    /\ Reported
    /\ Len(documents) = 2 /\ Len(validations) = 2
    /\ documents[1].document_type = "articles_of_association"
    /\ documents[2].document_type = "board_resolution"
    /\ validations[1].document_type = "articles_of_association"
    /\ validations[2].document_type = "board_resolution"
    /\ validations[2].red_flags # <<>>

\* ------------------------------------------- the verdict's further properties
Incorporation == Reported /\ compliance_report.process_type = "company_incorporation"

\* C24: the 60% threshold is strict: a company-incorporation batch with
\* exactly 3 of the 5 required types present has completion_percentage 60 and
\* is not 'incomplete'; one with 2 of 5 (40) or 1 of 5 (20) always is.
C24_StrictThreshold ==
    Incorporation =>
        /\ Len(Present) = 3 => Pct = 60 /\ Status # "incomplete"
        /\ Len(Present) = 2 => Pct = 40 /\ Status = "incomplete"
        /\ Len(Present) = 1 => Pct = 20 /\ Status = "incomplete"

C24_Witness ==
    /\ Incorporation
    /\ Len(Present) = 3
    /\ Pct = 60
    /\ High = 0
    /\ Status = "requires_attention"

\* every red flag of the batch, as <<validation, position>>
FlagSites ==
    UNION {{<<i, j>> : j \in DOMAIN validations[i].red_flags} : i \in DOMAIN validations}

\* C25: total_red_flags is the sum of the lengths of red_flags over all
\* validations and high_severity the number of those flags of severity
\* 'high', so 0 <= high_severity <= total_red_flags; a flag a document
\* carries twice is counted twice.
C25_FlagCounts ==
    Reported =>
        /\ compliance_report.issues_summary.total_red_flags = Cardinality(FlagSites)
        /\ High = Cardinality({s \in FlagSites :
                                  validations[s[1]].red_flags[s[2]].severity = "high"})
        /\ 0 <= High
        /\ High <= compliance_report.issues_summary.total_red_flags

C25_Witness ==
    /\ Reported
    /\ Len(validations) = 2
    /\ Len(validations[1].red_flags) = 2
    /\ validations[1].red_flags[1] = validations[1].red_flags[2]
    /\ Len(validations[2].red_flags) = 2
    /\ validations[2].red_flags[2].severity = "medium"
    /\ compliance_report.issues_summary.total_red_flags = 4
    /\ High = 3

\* C26: the classifier never returns register_members_directors, so for every
\* batch of parsed documents for which company_incorporation is selected the
\* missing list holds register_members_directors, completion_percentage is
\* at most 80, and overall_status is never 'ready_for_submission'.
C26_RegisterAlwaysMissing ==
    /\ \A i \in DOMAIN documents :
           documents[i].document_type # "register_members_directors"
    /\ Incorporation =>
           /\ "register_members_directors" \in Range(Missing)
           /\ Pct <= 80
           /\ Status # "ready_for_submission"

\* the four other required documents uploaded and analysed
C26_Witness ==
    /\ Incorporation
    /\ Len(documents) = 4
    /\ Len(validations) = 4
    /\ Missing = <<"register_members_directors">>
    /\ Pct = 80
    /\ High = 4
    /\ Status = "major_issues"

\* ------------------------------------- the validator's further properties
\* C27: a document is 'compliant' only if its text references ADGM: every
\* text, the empty one included, that holds neither 'adgm' nor 'abu dhabi
\* global market' gets at least one high-severity red flag and the status
\* 'requires_attention'.
C27_CompliantNamesADGM ==
    Validated =>
        /\ NoRegulator =>
               /\ \E i \in DOMAIN validation.red_flags :
                      validation.red_flags[i].severity = "high"
               /\ validation.overall_status = "requires_attention"
        /\ validation.overall_status = "compliant" => ~NoRegulator

\* the empty text
C27_Witness ==
    /\ Validated
    /\ doc_info.text_content = ""
    /\ Len(validation.red_flags) = 1
    /\ validation.red_flags[1].severity = "high"
    /\ validation.overall_status = "requires_attention"

\* the validations with their medium-severity flags taken out
WithoutMedium(vs) ==
    [i \in DOMAIN vs |->
        [vs[i] EXCEPT !.red_flags = SelectSeq(@, LAMBDA rf : rf.severity # "medium")]]

MediumFlags ==
    {s \in FlagSites : validations[s[1]].red_flags[s[2]].severity = "medium"}

\* C28: medium-severity flags do not influence the verdict: over the same
\* documents, validations that differ only in their medium-severity flags
\* (here: the batch and the batch without them) get the same overall_status,
\* completion_percentage and missing_documents; only total_red_flags differs,
\* by the number of medium flags.
C28_MediumIgnored ==
    Reported =>
        \A set_order \in Orders(documents) :
            LET other == generate_compliance_report(documents, WithoutMedium(validations),
                                                    set_order)
            IN  /\ other.overall_status = Status
                /\ other.completeness.completion_percentage = Pct
                /\ other.completeness.missing_documents = Missing
                /\ other.issues_summary.high_severity = High
                /\ other.issues_summary.total_red_flags + Cardinality(MediumFlags)
                       = compliance_report.issues_summary.total_red_flags

\* two high and two medium flags: with the medium ones counted the status
\* would be major_issues
C28_Witness ==
    /\ Reported
    /\ High = 2
    /\ Cardinality(MediumFlags) = 2
    /\ compliance_report.issues_summary.total_red_flags = 4
    /\ Pct = 100
    /\ Status = "requires_attention"

\* C29: a report is consistent with its status: 'ready_for_submission'
\* implies no high-severity flag, no missing document and completion 100;
\* 'major_issues' implies at least 3 high-severity flags and completion >= 60;
\* 'requires_attention' implies completion >= 60 and at most 2 high-severity
\* flags; 'incomplete' implies a non-empty missing list.
C29_StatusConsistent ==
    Reported =>
        /\ Status \in {"ready_for_submission", "major_issues", "requires_attention",
                       "incomplete"}
        /\ Status = "ready_for_submission" => High = 0 /\ Missing = <<>> /\ Pct = 100
        /\ Status = "major_issues" => High >= 3 /\ Pct >= 60
        /\ Status = "requires_attention" => Pct >= 60 /\ High <= 2
        /\ Status = "incomplete" => Missing # <<>>

\* all five required documents and no flag
C29_Witness ==
    /\ Incorporation
    /\ Len(Present) = 5
    /\ Missing = <<>>
    /\ High = 0
    /\ Pct = 100
    /\ Status = "ready_for_submission"

\* --------------------------------------- process_documents' result
\* C30: process_documents always ends with a result and never lets an
\* exception out: with no files it returns the 'No files uploaded' message at
\* once, with no report computed or written; a failure outside the per-file
\* block gives a message starting with the error mark and empty report
\* paths; the analysis message comes with both paths.
C30_AlwaysReturns ==
    /\ <>(pc = "done")
    /\ [](pc # "done" => result = NoResult)
    /\ [](pc = "done" =>
              /\ result # NoResult
              /\ result.status.kind \in {"no_files", "error", "analysis_complete"}
              /\ files = <<>> <=> result.status.kind = "no_files"
              /\ result.status.kind = "no_files" =>
                     ~Reported /\ result.json_path = "" /\ result.text_path = ""
              /\ result.status.kind = "error" =>
                     result.json_path = "" /\ result.text_path = ""
              /\ result.status.kind = "analysis_complete" =>
                     Reported /\ result.json_path # "" /\ result.text_path # "")
    /\ [][(pc = "start" /\ files = <<>>) => pc' = "done"]_vars
    /\ [][(pc = "write" /\ pc' = "done") => result'.status.kind = "error"]_vars

\* report writing failed after two files were analysed
C30_Witness ==
    /\ pc = "done"
    /\ Len(files) = 2
    /\ Len(validations) = 2
    /\ Reported
    /\ result # NoResult
    /\ result.status.kind = "error"
    /\ result.json_path = ""
    /\ result.text_path = ""

====
